---- MODULE Spec2Model ----
(***************************************************************************)
(* Wisp: the recursive-descent parser and the tree-walking evaluator of    *)
(* src/unnamed/part_001 (the complete revision of the interpreter).        *)
(*                                                                         *)
(* Program text is a sequence of one-character strings.  A name and the    *)
(* content of a string literal are the sequences of characters the parser  *)
(* cut out of the text.                                                    *)
(***************************************************************************)
EXTENDS Integers, Sequences, FiniteSets, TLC

(***************************************************************************)
(* Characters                                                              *)
(***************************************************************************)
Digits == <<"0", "1", "2", "3", "4", "5", "6", "7", "8", "9">>

Letters ==
    {"a", "b", "c", "d", "e", "f", "g", "h", "i", "j", "k", "l", "m",
     "n", "o", "p", "q", "r", "s", "t", "u", "v", "w", "x", "y", "z",
     "A", "B", "C", "D", "E", "F", "G", "H", "I", "J", "K", "L", "M",
     "N", "O", "P", "Q", "R", "S", "T", "U", "V", "W", "X", "Y", "Z"}

\* \d of the regular expressions
IsDigit(c) == \E i \in 1..10 : Digits[i] = c

\* \s of the regular expressions (the white space the inputs use)
IsSpace(c) == c \in {" ", "\n", "\t", "\r"}

\* the characters "." does not match: a comment stops in front of them
IsLineTerminator(c) == c \in {"\n", "\r"}

\* \w, which decides where \b holds
IsWordChar(c) == c \in Letters \/ IsDigit(c) \/ c = "_"

\* [^\s(),#"]
IsNameChar(c) == ~IsSpace(c) /\ c \notin {"(", ")", ",", "#", "\""}

Drop(s, n) == SubSeq(s, n + 1, Len(s))

(***************************************************************************)
(* Values.  Every value is a record of the same three fields so that any   *)
(* two values can be compared: t is the kind, n the number (or the index   *)
(* of the function or array object), s the characters of a string (or the  *)
(* name of a host function).                                               *)
(***************************************************************************)
Num(i) == [t |-> "number", n |-> i, s |-> <<>>]
Str(cs) == [t |-> "string", n |-> 0, s |-> cs]
Bool(b) == [t |-> "boolean", n |-> IF b THEN 1 ELSE 0, s |-> <<>>]
\* a Number the model does not track as an integer: NaN, an infinity, a fraction
NumX == [t |-> "numberx", n |-> 0, s |-> <<>>]
\* the host's undefined
Undefined == [t |-> "undefined", n |-> 0, s |-> <<>>]
\* the function object number i made by fun
Closure(i) == [t |-> "closure", n |-> i, s |-> <<>>]
\* a function of the host placed in topScope
Host(name) == [t |-> "host", n |-> 0, s |-> name]
\* the array object number i made by array(...)
Arr(i) == [t |-> "array", n |-> i, s |-> <<>>]

\* typeof v == "function"
IsFunction(v) == v.t \in {"closure", "host"}

(***************************************************************************)
(* Expressions                                                             *)
(***************************************************************************)
ValueExpr(v) == [type |-> "value", value |-> v]
WordExpr(name) == [type |-> "word", name |-> name]
ApplyExpr(op, args) == [type |-> "apply", operator |-> op, args |-> args]

(***************************************************************************)
(* The parser                                                              *)
(***************************************************************************)
\* the end of a comment: the rest of the text from its line terminator on
RECURSIVE DropComment(_)
DropComment(s) ==
    IF s = <<>> THEN <<>>
    ELSE IF IsLineTerminator(Head(s)) THEN s
    ELSE DropComment(Tail(s))

\* the skipSpace of the earlier revision (parser.js): white space alone
RECURSIVE skipSpace_Whitespace(_)
skipSpace_Whitespace(string) ==
    IF string = <<>> THEN <<>>
    ELSE IF IsSpace(Head(string)) THEN skipSpace_Whitespace(Tail(string))
    ELSE string

\* string.slice(match[0].length) for the match of /(\s|#.*)*/
RECURSIVE skipSpace(_)
skipSpace(string) ==
    IF string = <<>> THEN <<>>
    ELSE IF IsSpace(Head(string)) THEN skipSpace(Tail(string))
    ELSE IF Head(string) = "#" THEN skipSpace(DropComment(Tail(string)))
    ELSE string

\* the character classes the three token expressions repeat
InClass(class, c) ==
    CASE class = "[^\"]" -> c # "\""
      [] class = "\\d" -> IsDigit(c)
      [] class = "[^\\s(),#\"]" -> IsNameChar(c)

\* the length of the longest prefix of s made of characters of the class
RECURSIVE RunLen(_, _)
RunLen(s, class) ==
    IF s = <<>> \/ ~InClass(class, Head(s)) THEN 0
    ELSE 1 + RunLen(Tail(s), class)

\* /^"([^"]*)"/ : the length of match[0], 0 when there is no match
StringMatchLen(program) ==
    IF program = <<>> \/ Head(program) # "\"" THEN 0
    ELSE LET k == RunLen(Tail(program), "[^\"]")
         IN IF k + 2 <= Len(program) THEN k + 2 ELSE 0

\* /^\d+\b/ : the length of match[0], 0 when there is no match
NumberMatchLen(program) ==
    LET k == RunLen(program, "\\d")
    IN IF k = 0 THEN 0
       ELSE IF k < Len(program) /\ IsWordChar(program[k + 1]) THEN 0
       ELSE k

\* /^[^\s(),#"]+/ : the length of match[0], 0 when there is no match
WordMatchLen(program) == RunLen(program, "[^\\s(),#\"]")

DigitValue(c) == (CHOOSE i \in 1..10 : Digits[i] = c) - 1

\* Number(match[0]) for a run of decimal digits
RECURSIVE ToNumber(_)
ToNumber(ds) ==
    IF ds = <<>> THEN 0
    ELSE 10 * ToNumber(SubSeq(ds, 1, Len(ds) - 1)) + DigitValue(ds[Len(ds)])

\* what a parsing function gives: {expr, rest}, or the SyntaxError it throws
Parsed(e, rest) == [ok |-> TRUE, expr |-> e, rest |-> rest]
NoExpr == WordExpr(<<>>)
SyntaxErr == [ok |-> FALSE, expr |-> NoExpr, rest |-> <<>>]

RECURSIVE parseExpression(_), parseApply(_, _), parseArgs(_, _)

parseExpression(program0) ==
    LET program == skipSpace(program0)
        sl == StringMatchLen(program)
        nl == NumberMatchLen(program)
        wl == WordMatchLen(program)
    IN IF sl > 0
       THEN parseApply(ValueExpr(Str(SubSeq(program, 2, sl - 1))), Drop(program, sl))
       ELSE IF nl > 0
       THEN parseApply(ValueExpr(Num(ToNumber(SubSeq(program, 1, nl)))), Drop(program, nl))
       ELSE IF wl > 0
       THEN parseApply(WordExpr(SubSeq(program, 1, wl)), Drop(program, wl))
       ELSE SyntaxErr

parseApply(expr, program0) ==
    LET program == skipSpace(program0)
    IN IF program = <<>> \/ Head(program) # "("
       THEN Parsed(expr, program)
       ELSE parseArgs(ApplyExpr(expr, <<>>), skipSpace(Tail(program)))

\* the while loop of parseApply, and what follows it
parseArgs(expr, program) ==
    IF program # <<>> /\ Head(program) = ")"
    THEN parseApply(expr, Tail(program))
    ELSE LET arg == parseExpression(program)
         IN IF ~arg.ok THEN SyntaxErr
            ELSE LET e2 == ApplyExpr(expr.operator, Append(expr.args, arg.expr))
                     p2 == skipSpace(arg.rest)
                 IN IF p2 # <<>> /\ Head(p2) = ","
                    THEN parseArgs(e2, skipSpace(Tail(p2)))
                    ELSE IF p2 = <<>> \/ Head(p2) # ")"
                    THEN SyntaxErr
                    ELSE parseArgs(e2, p2)

parse(program) ==
    LET r == parseExpression(program)
    IN IF ~r.ok THEN SyntaxErr
       ELSE IF Len(skipSpace(r.rest)) > 0 THEN SyntaxErr
       ELSE Parsed(r.expr, <<>>)

(***************************************************************************)
(* The evaluator: evaluate, the special forms and the environment, as a    *)
(* machine that makes the host's call stack explicit.                      *)
(***************************************************************************)
VARIABLES
    scopes,     \* the scope objects; scopes[1] is topScope
    funs,       \* the function objects made by fun
    arrays,     \* the array objects made by array
    pc,         \* "idle", "eval", "return", "call", "done" or "failed"
    expr,       \* pc = "eval": the expression evaluate was called with
    scope,      \* pc = "eval": the scope evaluate was called with
    value,      \* pc = "return": the value being returned; "done": run's result
    error,      \* pc = "failed": the kind of the error run threw
    stack,      \* the calls of special forms and functions in progress
    out,        \* what the current run wrote with console.log
    program,    \* the text the current run was called with
    defined,    \* the names of the program that the run before had bound
    ev,         \* the step taken last
    text,       \* the parser on its own: the text parse is called with
    tree,       \* the parser on its own: what parse gave for the text
    before      \* the text, and what parse gave for it, before an insertion

evalVars ==
    <<scopes, funs, arrays, pc, expr, scope, value, error, stack, out,
      program, defined, ev>>
parseVars == <<text, tree, before>>
vars == <<evalVars, parseVars>>

\* the names of the source
N_if == <<"i", "f">>
N_while == <<"w", "h", "i", "l", "e">>
N_do == <<"d", "o">>
N_define == <<"d", "e", "f", "i", "n", "e">>
N_fun == <<"f", "u", "n">>
N_true == <<"t", "r", "u", "e">>
N_false == <<"f", "a", "l", "s", "e">>
N_print == <<"p", "r", "i", "n", "t">>
N_array == <<"a", "r", "r", "a", "y">>
N_length == <<"l", "e", "n", "g", "t", "h">>
N_element == <<"e", "l", "e", "m", "e", "n", "t">>

\* the properties of specialForms
specialForms == {N_if, N_while, N_do, N_define, N_fun}

\* ["+", "-", "*", "/", "==", "<", ">"]
Operators == {<<"+">>, <<"-">>, <<"*">>, <<"/">>, <<"=", "=">>, <<"<">>, <<">">>}

\* topScope once the file has been loaded
topScope ==
    [vars |->
        [n \in {N_true, N_false, N_print, N_array, N_length, N_element}
                 \cup Operators |->
            IF n = N_true THEN Bool(TRUE)
            ELSE IF n = N_false THEN Bool(FALSE)
            ELSE Host(n)],
     proto |-> 0]

\* Object.create(parent)
ObjectCreate(parent) == [vars |-> <<>>, proto |-> parent]

\* name in scope: the object s or one on its prototype chain has the property
RECURSIVE HasBinding(_, _, _)
HasBinding(sc, s, name) ==
    IF s = 0 THEN FALSE
    ELSE IF name \in DOMAIN sc[s].vars THEN TRUE
    ELSE HasBinding(sc, sc[s].proto, name)

\* a lookup that prefers the binding of the outermost scope
RECURSIVE GetBinding_Outermost(_, _, _)
GetBinding_Outermost(sc, s, name) ==
    IF sc[s].proto # 0 /\ HasBinding(sc, sc[s].proto, name)
    THEN GetBinding_Outermost(sc, sc[s].proto, name)
    ELSE sc[s].vars[name]

\* scope[name], for a name in scope
RECURSIVE GetBinding(_, _, _)
GetBinding(sc, s, name) ==
    IF name \in DOMAIN sc[s].vars THEN sc[s].vars[name]
    ELSE GetBinding(sc, sc[s].proto, name)

\* the object on the prototype chain of s that has the property, s when none has
RECURSIVE Owner(_, _, _)
Owner(sc, s, name) ==
    IF name \in DOMAIN sc[s].vars \/ sc[s].proto = 0 THEN s
    ELSE Owner(sc, sc[s].proto, name)

\* a define that assigns to the binding of an enclosing scope when there is one
SetBinding_Assign(sc, s, name, v) ==
    LET o == IF HasBinding(sc, s, name) THEN Owner(sc, s, name) ELSE s
    IN [sc EXCEPT ![o].vars =
           [x \in DOMAIN @ \cup {name} |-> IF x = name THEN v ELSE @[x]]]

\* a define that writes into the global scope
SetBinding_Global(sc, s, name, v) ==
    [sc EXCEPT ![1].vars =
        [x \in DOMAIN @ \cup {name} |-> IF x = name THEN v ELSE @[x]]]

\* scope[name] = v : an own property of the object s
SetBinding(sc, s, name, v) ==
    [sc EXCEPT ![s].vars =
        [x \in DOMAIN @ \cup {name} |-> IF x = name THEN v ELSE @[x]]]

\* a call in progress
Frame(k, args, sc) ==
    [k |-> k,           \* the form, "apply" or "call"
     args |-> args,     \* the argument expressions
     sc |-> sc,         \* the scope of the call
     name |-> <<>>,     \* define: the name to bind
     i |-> 0,           \* the argument being evaluated (0: the operator)
     op |-> Undefined,  \* apply, call: the function
     vals |-> <<>>,     \* the values the evaluations gave, in order
     evals |-> <<>>]    \* the evaluations made, in order (0: the operator)

NoFrame == Frame("", <<>>, 0)
Top == stack[Len(stack)]
Pop == SubSeq(stack, 1, Len(stack) - 1)
Replace(f) == [stack EXCEPT ![Len(stack)] = f]

Event(op, f, sc, name, v) == [op |-> op, f |-> f, sc |-> sc, name |-> name, v |-> v]

\* evaluate(e, s) is called
Eval(e, s) ==
    /\ pc' = "eval" /\ expr' = e /\ scope' = s
    /\ value' = Undefined /\ error' = ""

\* a call returns v
Return(v) ==
    /\ pc' = "return" /\ value' = v
    /\ expr' = NoExpr /\ scope' = 0 /\ error' = ""

\* an error is thrown: nothing catches it, run fails
Throw(kind) ==
    /\ pc' = "failed" /\ error' = kind /\ stack' = <<>>
    /\ expr' = NoExpr /\ scope' = 0 /\ value' = Undefined

IsSpecialForm(e, name) ==
    /\ e.type = "apply"
    /\ e.operator.type = "word"
    /\ e.operator.name = name

\* expr.type == "value"
EvalValue ==
    /\ pc = "eval" /\ expr.type = "value"
    /\ Return(expr.value)
    /\ ev' = Event("EvalValue", NoFrame, scope, <<>>, expr.value)
    /\ UNCHANGED <<scopes, funs, arrays, stack, out, program, defined, text, tree, before>>

\* expr.type == "word"
EvalWord ==
    /\ pc = "eval" /\ expr.type = "word"
    /\ IF HasBinding(scopes, scope, expr.name)
       THEN /\ Return(GetBinding(scopes, scope, expr.name))
            /\ UNCHANGED stack
       ELSE Throw("ReferenceError")
    /\ ev' = Event("EvalWord", NoFrame, scope, expr.name, Undefined)
    /\ UNCHANGED <<scopes, funs, arrays, out, program, defined, text, tree, before>>

\* specialForms.if, up to its call of evaluate(args[0], scope)
EvalIf ==
    /\ pc = "eval" /\ IsSpecialForm(expr, N_if)
    /\ IF Len(expr.args) # 3
       THEN Throw("SyntaxError")
       ELSE /\ stack' = Append(stack,
                   [Frame("if", expr.args, scope) EXCEPT !.i = 1, !.evals = <<1>>])
            /\ Eval(expr.args[1], scope)
    /\ ev' = Event("EvalIf", NoFrame, scope, <<>>, Undefined)
    /\ UNCHANGED <<scopes, funs, arrays, out, program, defined, text, tree, before>>

\* the truth of a value for the host: false, 0, "", NaN and undefined are not true
Truthy(v) == v \notin {Bool(FALSE), Num(0), Str(<<>>), NumX, Undefined}

\* an if that tests the condition as the host's if does
IfTest_Truthy(v) == Truthy(v)

\* evaluate(args[0], scope) !== false, in specialForms.if
IfTest(v) == v # Bool(FALSE)

\* specialForms.if: the condition has its value, a branch is evaluated
IfCond ==
    /\ pc = "return" /\ stack # <<>> /\ Top.k = "if" /\ Top.i = 1
    /\ LET b == IF IfTest(value) THEN 2 ELSE 3
       IN /\ stack' = Replace([Top EXCEPT !.i = b,
                                          !.vals = Append(@, value),
                                          !.evals = Append(@, b)])
          /\ Eval(Top.args[b], Top.sc)
    /\ ev' = Event("IfCond", Top, Top.sc, <<>>, value)
    /\ UNCHANGED <<scopes, funs, arrays, out, program, defined, text, tree, before>>

\* specialForms.if returns the value of the branch
IfReturn ==
    /\ pc = "return" /\ stack # <<>> /\ Top.k = "if" /\ Top.i # 1
    /\ stack' = Pop
    /\ Return(value)
    /\ ev' = Event("IfReturn", Top, Top.sc, <<>>, value)
    /\ UNCHANGED <<scopes, funs, arrays, out, program, defined, text, tree, before>>

\* specialForms.while, up to its first call of evaluate(args[0], scope)
EvalWhile ==
    /\ pc = "eval" /\ IsSpecialForm(expr, N_while)
    /\ IF Len(expr.args) # 2
       THEN Throw("SyntaxError")
       ELSE /\ stack' = Append(stack,
                   [Frame("while", expr.args, scope) EXCEPT !.i = 1, !.evals = <<1>>])
            /\ Eval(expr.args[1], scope)
    /\ ev' = Event("EvalWhile", NoFrame, scope, <<>>, Undefined)
    /\ UNCHANGED <<scopes, funs, arrays, out, program, defined, text, tree, before>>

\* a while that tests the condition as the host's while does
WhileTest_Truthy(v) == Truthy(v)

\* evaluate(args[0], scope) !== false, in specialForms.while
WhileTest(v) == v # Bool(FALSE)

\* specialForms.while: the condition has its value
WhileCond ==
    /\ pc = "return" /\ stack # <<>> /\ Top.k = "while" /\ Top.i = 1
    /\ IF WhileTest(value)
       THEN /\ stack' = Replace([Top EXCEPT !.i = 2,
                                            !.vals = Append(@, value),
                                            !.evals = Append(@, 2)])
            /\ Eval(Top.args[2], Top.sc)
       ELSE /\ stack' = Pop
            /\ Return(Bool(FALSE))
    /\ ev' = Event("WhileCond", [Top EXCEPT !.vals = Append(@, value)],
                   Top.sc, <<>>, value)
    /\ UNCHANGED <<scopes, funs, arrays, out, program, defined, text, tree, before>>

\* specialForms.while: the body has been evaluated, the condition is next
WhileBody ==
    /\ pc = "return" /\ stack # <<>> /\ Top.k = "while" /\ Top.i = 2
    /\ stack' = Replace([Top EXCEPT !.i = 1,
                                    !.vals = Append(@, value),
                                    !.evals = Append(@, 1)])
    /\ Eval(Top.args[1], Top.sc)
    /\ ev' = Event("WhileBody", Top, Top.sc, <<>>, value)
    /\ UNCHANGED <<scopes, funs, arrays, out, program, defined, text, tree, before>>

\* specialForms.do, up to its first call of evaluate
EvalDo ==
    /\ pc = "eval" /\ IsSpecialForm(expr, N_do)
    /\ IF Len(expr.args) = 0
       THEN /\ Return(Bool(FALSE))
            /\ UNCHANGED stack
       ELSE /\ stack' = Append(stack,
                   [Frame("do", expr.args, scope) EXCEPT !.i = 1, !.evals = <<1>>])
            /\ Eval(expr.args[1], scope)
    /\ ev' = Event("EvalDo", NoFrame, scope, <<>>, Undefined)
    /\ UNCHANGED <<scopes, funs, arrays, out, program, defined, text, tree, before>>

\* specialForms.do: an argument has its value
DoNext ==
    /\ pc = "return" /\ stack # <<>> /\ Top.k = "do"
    /\ IF Top.i < Len(Top.args)
       THEN /\ stack' = Replace([Top EXCEPT !.i = @ + 1,
                                            !.vals = Append(@, value),
                                            !.evals = Append(@, Top.i + 1)])
            /\ Eval(Top.args[Top.i + 1], Top.sc)
       ELSE /\ stack' = Pop
            /\ Return(value)
    /\ ev' = Event("DoNext", Top, Top.sc, <<>>, value)
    /\ UNCHANGED <<scopes, funs, arrays, out, program, defined, text, tree, before>>

\* specialForms.define, up to its call of evaluate(args[1], scope)
EvalDefine ==
    /\ pc = "eval" /\ IsSpecialForm(expr, N_define)
    /\ IF Len(expr.args) # 2 \/ expr.args[1].type # "word"
       THEN Throw("SyntaxError")
       ELSE /\ stack' = Append(stack,
                   [Frame("define", expr.args, scope) EXCEPT
                       !.i = 2, !.evals = <<2>>, !.name = expr.args[1].name])
            /\ Eval(expr.args[2], scope)
    /\ ev' = Event("EvalDefine", NoFrame, scope, <<>>, Undefined)
    /\ UNCHANGED <<scopes, funs, arrays, out, program, defined, text, tree, before>>

\* specialForms.define: scope[args[0].name] = value; return value
DefineBind ==
    /\ pc = "return" /\ stack # <<>> /\ Top.k = "define"
    /\ scopes' = SetBinding(scopes, Top.sc, Top.name, value)
    /\ stack' = Pop
    /\ Return(value)
    /\ ev' = Event("DefineBind", Top, Top.sc, Top.name, value)
    /\ UNCHANGED <<funs, arrays, out, program, defined, text, tree, before>>

\* a fun whose function keeps a copy of the scope as it is when fun is evaluated
EvalFun_Snapshot ==
    /\ pc = "eval" /\ IsSpecialForm(expr, N_fun)
    /\ LET args == expr.args
           n == Len(args)
       IN IF n = 0
          THEN Throw("SyntaxError") /\ UNCHANGED <<funs, scopes>>
          ELSE IF \E i \in 1..(n - 1) : args[i].type # "word"
          THEN Throw("SyntaxError") /\ UNCHANGED <<funs, scopes>>
          ELSE /\ scopes' = Append(scopes, scopes[scope])
               /\ funs' = Append(funs,
                      [params |-> [i \in 1..(n - 1) |-> args[i].name],
                       body |-> args[n],
                       scope |-> Len(scopes) + 1])
               /\ Return(Closure(Len(funs) + 1))
               /\ UNCHANGED stack
    /\ ev' = Event("EvalFun", NoFrame, scope, <<>>, Undefined)
    /\ UNCHANGED <<arrays, out, program, defined, text, tree, before>>

\* a fun that leaves the check of its parameters to the call
EvalFun_Unchecked ==
    /\ pc = "eval" /\ IsSpecialForm(expr, N_fun)
    /\ LET args == expr.args
           n == Len(args)
       IN IF n = 0
          THEN Throw("SyntaxError") /\ UNCHANGED funs
          ELSE /\ funs' = Append(funs,
                      [params |-> [i \in 1..(n - 1) |->
                                      IF args[i].type = "word"
                                      THEN args[i].name ELSE <<>>],
                       body |-> args[n],
                       scope |-> scope])
               /\ Return(Closure(Len(funs) + 1))
               /\ UNCHANGED stack
    /\ ev' = Event("EvalFun", NoFrame, scope, <<>>, Undefined)
    /\ UNCHANGED <<scopes, arrays, out, program, defined, text, tree, before>>

\* specialForms.fun
EvalFun ==
    /\ pc = "eval" /\ IsSpecialForm(expr, N_fun)
    /\ LET args == expr.args
           n == Len(args)
       IN IF n = 0
          THEN Throw("SyntaxError") /\ UNCHANGED funs
          ELSE IF \E i \in 1..(n - 1) : args[i].type # "word"
          THEN Throw("SyntaxError") /\ UNCHANGED funs
          ELSE /\ funs' = Append(funs,
                      [params |-> [i \in 1..(n - 1) |-> args[i].name],
                       body |-> args[n],
                       scope |-> scope])
               /\ Return(Closure(Len(funs) + 1))
               /\ UNCHANGED stack
    /\ ev' = Event("EvalFun", NoFrame, scope, <<>>, Undefined)
    /\ UNCHANGED <<scopes, arrays, out, program, defined, text, tree, before>>

\* expr.type == "apply", the operator no special form: evaluate(operator, scope)
EvalApply ==
    /\ pc = "eval" /\ expr.type = "apply"
    /\ ~(expr.operator.type = "word" /\ expr.operator.name \in specialForms)
    /\ stack' = Append(stack, [Frame("apply", expr.args, scope) EXCEPT !.evals = <<0>>])
    /\ Eval(expr.operator, scope)
    /\ ev' = Event("EvalApply", NoFrame, scope, <<>>, Undefined)
    /\ UNCHANGED <<scopes, funs, arrays, out, program, defined, text, tree, before>>

\* the application: the operator has its value
ApplyOperator ==
    /\ pc = "return" /\ stack # <<>> /\ Top.k = "apply" /\ Top.i = 0
    /\ IF ~IsFunction(value)
       THEN Throw("TypeError")
       ELSE IF Len(Top.args) = 0
       THEN /\ stack' = Replace([Top EXCEPT !.op = value])
            /\ pc' = "call"
            /\ UNCHANGED <<expr, scope, value, error>>
       ELSE /\ stack' = Replace([Top EXCEPT !.op = value, !.i = 1,
                                            !.evals = Append(@, 1)])
            /\ Eval(Top.args[1], Top.sc)
    /\ ev' = Event("ApplyOperator", Top, Top.sc, <<>>, value)
    /\ UNCHANGED <<scopes, funs, arrays, out, program, defined, text, tree, before>>

\* an application that hands the values of its arguments over in reverse order
ApplyArg_Reversed ==
    /\ pc = "return" /\ stack # <<>> /\ Top.k = "apply" /\ Top.i >= 1
    /\ IF Top.i < Len(Top.args)
       THEN /\ stack' = Replace([Top EXCEPT !.i = @ + 1,
                                            !.vals = <<value>> \o @,
                                            !.evals = Append(@, Top.i + 1)])
            /\ Eval(Top.args[Top.i + 1], Top.sc)
       ELSE /\ stack' = Replace([Top EXCEPT !.vals = <<value>> \o @])
            /\ pc' = "call"
            /\ UNCHANGED <<expr, scope, value, error>>
    /\ ev' = Event("ApplyArg", Top, Top.sc, <<>>, value)
    /\ UNCHANGED <<scopes, funs, arrays, out, program, defined, text, tree, before>>

\* the application: args.map(arg => evaluate(arg, scope)), an argument has its value
ApplyArg ==
    /\ pc = "return" /\ stack # <<>> /\ Top.k = "apply" /\ Top.i >= 1
    /\ IF Top.i < Len(Top.args)
       THEN /\ stack' = Replace([Top EXCEPT !.i = @ + 1,
                                            !.vals = Append(@, value),
                                            !.evals = Append(@, Top.i + 1)])
            /\ Eval(Top.args[Top.i + 1], Top.sc)
       ELSE /\ stack' = Replace([Top EXCEPT !.vals = Append(@, value)])
            /\ pc' = "call"
            /\ UNCHANGED <<expr, scope, value, error>>
    /\ ev' = Event("ApplyArg", Top, Top.sc, <<>>, value)
    /\ UNCHANGED <<scopes, funs, arrays, out, program, defined, text, tree, before>>

\* localScope[params[i]] = args[i] for i = 0, 1, ...: the last assignment stays
BindParams(params, args) ==
    [x \in {params[i] : i \in 1..Len(params)} |->
        LET last == CHOOSE i \in 1..Len(params) :
                        /\ params[i] = x
                        /\ \A j \in 1..Len(params) : params[j] = x => j <= i
        IN args[last]]

\* a call scope that delegates to the scope of the caller
CallScope_Dynamic(f, args) ==
    [vars |-> BindParams(f.params, args), proto |-> Top.sc]

\* the scope a call of the function f makes: Object.create(scope), then the bindings
CallScope(f, args) == [vars |-> BindParams(f.params, args), proto |-> f.scope]

\* a check that only refuses a call with too few arguments
ArityMismatch_TooFew(f, args) == Len(args) < Len(f.params)

\* args.length != params.length
ArityMismatch(f, args) == Len(args) # Len(f.params)

\* op(...) for a function made by fun
CallClosure ==
    /\ pc = "call" /\ Top.op.t = "closure"
    /\ LET f == funs[Top.op.n]
       IN IF ArityMismatch(f, Top.vals)
          THEN Throw("TypeError") /\ UNCHANGED scopes
          ELSE /\ scopes' = Append(scopes, CallScope(f, Top.vals))
               /\ stack' = Replace([Top EXCEPT !.k = "call", !.sc = Len(scopes) + 1])
               /\ Eval(f.body, Len(scopes) + 1)
    /\ ev' = Event("CallClosure", Top, Len(scopes) + 1, <<>>, Top.op)
    /\ UNCHANGED <<funs, arrays, out, program, defined, text, tree, before>>

\* the function made by fun returns what evaluate(body, localScope) gave
CallReturn ==
    /\ pc = "return" /\ stack # <<>> /\ Top.k = "call"
    /\ stack' = Pop
    /\ Return(value)
    /\ ev' = Event("CallReturn", Top, Top.sc, <<>>, value)
    /\ UNCHANGED <<scopes, funs, arrays, out, program, defined, text, tree, before>>

(***************************************************************************)
(* The functions of the host in topScope                                   *)
(***************************************************************************)
\* a parameter of a host function: undefined when the argument is missing
Arg(a, i) == IF i <= Len(a) THEN a[i] ELSE Undefined

\* String(n) for an integer
RECURSIVE NatToDigits(_)
NatToDigits(n) ==
    IF n < 10 THEN <<Digits[n + 1]>>
    ELSE Append(NatToDigits(n \div 10), Digits[(n % 10) + 1])

NumberToString(n) == IF n < 0 THEN <<"-">> \o NatToDigits(-n) ELSE NatToDigits(n)

\* the operand as a number, for the kinds that convert without parsing
IsNumeric(v) == v.t \in {"number", "numberx", "boolean", "undefined"}
AsNumber(v) == IF v.t \in {"number", "boolean"} THEN Num(v.n) ELSE NumX

IsObject(v) == v.t \in {"closure", "host", "array"}

\* Function("a, b", `return a ${op} b;`): the values a call can give.  The
\* operand kinds whose conversion is not modelled give no value.
BinaryOp(op, a, b) ==
    LET x == AsNumber(a)
        y == AsNumber(b)
        tracked == x.t = "number" /\ y.t = "number"
    IN CASE op = <<"+">> ->
              IF IsNumeric(a) /\ IsNumeric(b)
              THEN {IF tracked THEN Num(x.n + y.n) ELSE NumX}
              ELSE IF a.t = "string" /\ b.t = "string" THEN {Str(a.s \o b.s)}
              ELSE IF a.t = "string" /\ b.t = "number"
              THEN {Str(a.s \o NumberToString(b.n))}
              ELSE IF a.t = "number" /\ b.t = "string"
              THEN {Str(NumberToString(a.n) \o b.s)}
              ELSE {}
         [] op = <<"-">> ->
              IF IsNumeric(a) /\ IsNumeric(b)
              THEN {IF tracked THEN Num(x.n - y.n) ELSE NumX}
              ELSE {}
         [] op = <<"*">> ->
              IF IsNumeric(a) /\ IsNumeric(b)
              THEN {IF tracked THEN Num(x.n * y.n) ELSE NumX}
              ELSE {}
         [] op = <<"/">> ->
              IF IsNumeric(a) /\ IsNumeric(b)
              THEN {IF tracked /\ y.n # 0 /\ x.n % y.n = 0
                    THEN Num(x.n \div y.n) ELSE NumX}
              ELSE {}
         [] op = <<"=", "=">> ->
              IF a.t = "numberx" \/ b.t = "numberx" THEN {Bool(TRUE), Bool(FALSE)}
              ELSE IF a.t = b.t THEN {Bool(a = b)}
              ELSE IF a.t = "undefined" \/ b.t = "undefined" THEN {Bool(FALSE)}
              ELSE IF IsNumeric(a) /\ IsNumeric(b) THEN {Bool(x.n = y.n)}
              ELSE {}
         [] op = <<"<">> ->
              IF IsNumeric(a) /\ IsNumeric(b)
              THEN IF tracked THEN {Bool(x.n < y.n)}
                   ELSE IF a.t = "undefined" \/ b.t = "undefined" THEN {Bool(FALSE)}
                   ELSE {Bool(TRUE), Bool(FALSE)}
              ELSE {}
         [] op = <<">">> ->
              IF IsNumeric(a) /\ IsNumeric(b)
              THEN IF tracked THEN {Bool(x.n > y.n)}
                   ELSE IF a.t = "undefined" \/ b.t = "undefined" THEN {Bool(FALSE)}
                   ELSE {Bool(TRUE), Bool(FALSE)}
              ELSE {}

\* array[n] for a number n: undefined unless n is an index of the array
ElementAt(array, n) ==
    IF n.t = "number" /\ 0 <= n.n /\ n.n < Len(array) THEN array[n.n + 1]
    ELSE Undefined

\* op(...) for a function of the host
CallHost ==
    /\ pc = "call" /\ Top.op.t = "host"
    /\ LET name == Top.op.s
           a == Top.vals
           a1 == Arg(a, 1)
           a2 == Arg(a, 2)
       IN CASE name = N_print ->
                 /\ out' = Append(out, a1)
                 /\ stack' = Pop /\ Return(a1)
                 /\ UNCHANGED arrays
            [] name = N_array ->
                 /\ arrays' = Append(arrays, a)
                 /\ stack' = Pop /\ Return(Arr(Len(arrays) + 1))
                 /\ UNCHANGED out
            [] name = N_length ->
                 /\ IF a1.t # "array"
                    THEN Throw("TypeError")
                    ELSE stack' = Pop /\ Return(Num(Len(arrays[a1.n])))
                 /\ UNCHANGED <<arrays, out>>
            [] name = N_element ->
                 /\ IF a1.t # "array"
                    THEN Throw("TypeError")
                    ELSE IF a2.t \notin {"number", "numberx"}
                    THEN Throw("TypeError")
                    ELSE stack' = Pop /\ Return(ElementAt(arrays[a1.n], a2))
                 /\ UNCHANGED <<arrays, out>>
            [] OTHER ->
                 /\ \E r \in BinaryOp(name, a1, a2) : Return(r)
                 /\ stack' = Pop
                 /\ UNCHANGED <<arrays, out>>
    /\ ev' = Event("CallHost", Top, Top.sc, Top.op.s, Undefined)
    /\ UNCHANGED <<scopes, funs, program, defined, text, tree, before>>

\* the largest bound N of the summing loop
MaxN == 11

(***************************************************************************)
(* The programs run is called with                                         *)
(***************************************************************************)
\* README.md: prints large
\*   do(define(x, 10),
\*      if(>(x, 5),
\*         print("large"),
\*         print("small")))
P_large ==
    <<"d", "o", "(", "d", "e", "f", "i", "n", "e", "(", "x", ",", " ", "1",
      "0", ")", ",", "\n", " ", " ", " ", "i", "f", "(", ">", "(", "x", ",",
      " ", "5", ")", ",", "\n", " ", " ", " ", " ", " ", " ", "p", "r", "i",
      "n", "t", "(", "\"", "l", "a", "r", "g", "e", "\"", ")", ",", "\n",
      " ", " ", " ", " ", " ", " ", "p", "r", "i", "n", "t", "(", "\"", "s",
      "m", "a", "l", "l", "\"", ")", ")", ")">>

\* part_001 233-236: 11
\*   do(define(plusOne, fun(a, +(a, 1))),
\*      print(plusOne(10)))
P_plusOne ==
    <<"d", "o", "(", "d", "e", "f", "i", "n", "e", "(", "p", "l", "u", "s",
      "O", "n", "e", ",", " ", "f", "u", "n", "(", "a", ",", " ", "+", "(",
      "a", ",", " ", "1", ")", ")", ")", ",", "\n", " ", " ", " ", "p", "r",
      "i", "n", "t", "(", "p", "l", "u", "s", "O", "n", "e", "(", "1", "0",
      ")", ")", ")">>

\* part_001 238-244: 1024
\*   do(define(pow, fun(base, exp,
\*        if(==(exp, 0),
\*           1,
\*           *(base, pow(base, -(exp, 1)))))),
\*      print(pow(2, 10)))
P_pow ==
    <<"d", "o", "(", "d", "e", "f", "i", "n", "e", "(", "p", "o", "w", ",",
      " ", "f", "u", "n", "(", "b", "a", "s", "e", ",", " ", "e", "x", "p",
      ",", "\n", " ", " ", " ", " ", " ", "i", "f", "(", "=", "=", "(", "e",
      "x", "p", ",", " ", "0", ")", ",", "\n", " ", " ", " ", " ", " ", " ",
      " ", " ", "1", ",", "\n", " ", " ", " ", " ", " ", " ", " ", " ", "*",
      "(", "b", "a", "s", "e", ",", " ", "p", "o", "w", "(", "b", "a", "s",
      "e", ",", " ", "-", "(", "e", "x", "p", ",", " ", "1", ")", ")", ")",
      ")", ")", ")", ",", "\n", " ", " ", " ", "p", "r", "i", "n", "t", "(",
      "p", "o", "w", "(", "2", ",", " ", "1", "0", ")", ")", ")">>

\* part_001 287-296: 6
\*   do(define(sum, fun(array,
\*        do(define(i, 0),
\*           define(sum, 0),
\*           while(<(i, length(array)),
\*             do(define(sum, +(sum, element(array, i))),
\*                define(i, +(i, 1)))),
\*           sum))),
\*      print(sum(array(1, 2, 3))))
P_sumArray ==
    <<"d", "o", "(", "d", "e", "f", "i", "n", "e", "(", "s", "u", "m", ",",
      " ", "f", "u", "n", "(", "a", "r", "r", "a", "y", ",", "\n", " ", " ",
      " ", " ", " ", "d", "o", "(", "d", "e", "f", "i", "n", "e", "(", "i",
      ",", " ", "0", ")", ",", "\n", " ", " ", " ", " ", " ", " ", " ", " ",
      "d", "e", "f", "i", "n", "e", "(", "s", "u", "m", ",", " ", "0", ")",
      ",", "\n", " ", " ", " ", " ", " ", " ", " ", " ", "w", "h", "i", "l",
      "e", "(", "<", "(", "i", ",", " ", "l", "e", "n", "g", "t", "h", "(",
      "a", "r", "r", "a", "y", ")", ")", ",", "\n", " ", " ", " ", " ", " ",
      " ", " ", " ", " ", " ", "d", "o", "(", "d", "e", "f", "i", "n", "e",
      "(", "s", "u", "m", ",", " ", "+", "(", "s", "u", "m", ",", " ", "e",
      "l", "e", "m", "e", "n", "t", "(", "a", "r", "r", "a", "y", ",", " ",
      "i", ")", ")", ")", ",", "\n", " ", " ", " ", " ", " ", " ", " ", " ",
      " ", " ", " ", " ", " ", "d", "e", "f", "i", "n", "e", "(", "i", ",",
      " ", "+", "(", "i", ",", " ", "1", ")", ")", ")", ")", ",", "\n", " ",
      " ", " ", " ", " ", " ", " ", " ", "s", "u", "m", ")", ")", ")", ",",
      "\n", " ", " ", " ", "p", "r", "i", "n", "t", "(", "s", "u", "m", "(",
      "a", "r", "r", "a", "y", "(", "1", ",", " ", "2", ",", " ", "3", ")",
      ")", ")", ")">>

\* part_001 303-306: 9
\*   do(define(f, fun(a, fun(b, +(a, b)))),
\*      print(f(4)(5)))
P_closure ==
    <<"d", "o", "(", "d", "e", "f", "i", "n", "e", "(", "f", ",", " ", "f",
      "u", "n", "(", "a", ",", " ", "f", "u", "n", "(", "b", ",", " ", "+",
      "(", "a", ",", " ", "b", ")", ")", ")", ")", ",", "\n", " ", " ", " ",
      "p", "r", "i", "n", "t", "(", "f", "(", "4", ")", "(", "5", ")", ")",
      ")">>

\* a function defines again a name of the enclosing scope
\*   do(define(x, 1),
\*      define(f, fun(do(define(x, 2), print(x)))),
\*      f(),
\*      x)
P_shadow ==
    <<"d", "o", "(", "d", "e", "f", "i", "n", "e", "(", "x", ",", " ", "1",
      ")", ",", "\n", " ", " ", " ", "d", "e", "f", "i", "n", "e", "(", "f",
      ",", " ", "f", "u", "n", "(", "d", "o", "(", "d", "e", "f", "i", "n",
      "e", "(", "x", ",", " ", "2", ")", ",", " ", "p", "r", "i", "n", "t",
      "(", "x", ")", ")", ")", ")", ",", "\n", " ", " ", " ", "f", "(", ")",
      ",", "\n", " ", " ", " ", "x", ")">>

\* the caller binds the free name of the callee to another value
\*   do(define(a, 1),
\*      define(g, fun(a)),
\*      define(h, fun(a, g())),
\*      h(2))
P_lexical ==
    <<"d", "o", "(", "d", "e", "f", "i", "n", "e", "(", "a", ",", " ", "1",
      ")", ",", "\n", " ", " ", " ", "d", "e", "f", "i", "n", "e", "(", "g",
      ",", " ", "f", "u", "n", "(", "a", ")", ")", ",", "\n", " ", " ", " ",
      "d", "e", "f", "i", "n", "e", "(", "h", ",", " ", "f", "u", "n", "(",
      "a", ",", " ", "g", "(", ")", ")", ")", ",", "\n", " ", " ", " ", "h",
      "(", "2", ")", ")">>

\* two calls of one function
\*   do(define(f, fun(n, do(define(k, n), k))),
\*      +(f(1), f(2)))
P_twoCalls ==
    <<"d", "o", "(", "d", "e", "f", "i", "n", "e", "(", "f", ",", " ", "f",
      "u", "n", "(", "n", ",", " ", "d", "o", "(", "d", "e", "f", "i", "n",
      "e", "(", "k", ",", " ", "n", ")", ",", " ", "k", ")", ")", ")", ",",
      "\n", " ", " ", " ", "+", "(", "f", "(", "1", ")", ",", " ", "f", "(",
      "2", ")", ")", ")">>

\* the defining scope gets a binding after fun was evaluated
\*   do(define(f, fun(x)),
\*      define(x, 5),
\*      f())
P_byReference ==
    <<"d", "o", "(", "d", "e", "f", "i", "n", "e", "(", "f", ",", " ", "f",
      "u", "n", "(", "x", ")", ")", ",", "\n", " ", " ", " ", "d", "e", "f",
      "i", "n", "e", "(", "x", ",", " ", "5", ")", ",", "\n", " ", " ", " ",
      "f", "(", ")", ")">>

\* conditions that are not Boolean false, and one that is
\*   if(0, print("t"), print("e"))
P_ifZero ==
    <<"i", "f", "(", "0", ",", " ", "p", "r", "i", "n", "t", "(", "\"", "t",
      "\"", ")", ",", " ", "p", "r", "i", "n", "t", "(", "\"", "e", "\"",
      ")", ")">>

\*   if("", print("t"), print("e"))
P_ifEmpty ==
    <<"i", "f", "(", "\"", "\"", ",", " ", "p", "r", "i", "n", "t", "(",
      "\"", "t", "\"", ")", ",", " ", "p", "r", "i", "n", "t", "(", "\"",
      "e", "\"", ")", ")">>

\*   if(false, print("t"), print("e"))
P_ifFalse ==
    <<"i", "f", "(", "f", "a", "l", "s", "e", ",", " ", "p", "r", "i", "n",
      "t", "(", "\"", "t", "\"", ")", ",", " ", "p", "r", "i", "n", "t", "(",
      "\"", "e", "\"", ")", ")">>

\*   if(<(2, 1), print("t"), print("e"))
P_ifCompare ==
    <<"i", "f", "(", "<", "(", "2", ",", " ", "1", ")", ",", " ", "p", "r",
      "i", "n", "t", "(", "\"", "t", "\"", ")", ",", " ", "p", "r", "i", "n",
      "t", "(", "\"", "e", "\"", ")", ")">>

\* calls with the wrong number of arguments
\*   do(define(x, 1),
\*      define(f, fun(a, define(x, print(a)))),
\*      f(1, 2))
P_tooMany ==
    <<"d", "o", "(", "d", "e", "f", "i", "n", "e", "(", "x", ",", " ", "1",
      ")", ",", "\n", " ", " ", " ", "d", "e", "f", "i", "n", "e", "(", "f",
      ",", " ", "f", "u", "n", "(", "a", ",", " ", "d", "e", "f", "i", "n",
      "e", "(", "x", ",", " ", "p", "r", "i", "n", "t", "(", "a", ")", ")",
      ")", ")", ",", "\n", " ", " ", " ", "f", "(", "1", ",", " ", "2", ")",
      ")">>

\*   do(define(x, 1),
\*      define(f, fun(a, define(x, print(a)))),
\*      f())
P_tooFew ==
    <<"d", "o", "(", "d", "e", "f", "i", "n", "e", "(", "x", ",", " ", "1",
      ")", ",", "\n", " ", " ", " ", "d", "e", "f", "i", "n", "e", "(", "f",
      ",", " ", "f", "u", "n", "(", "a", ",", " ", "d", "e", "f", "i", "n",
      "e", "(", "x", ",", " ", "p", "r", "i", "n", "t", "(", "a", ")", ")",
      ")", ")", ",", "\n", " ", " ", " ", "f", "(", ")", ")">>

\* a parameter name used twice
\*   fun(a, a, a)(1, 2)
P_sameParam ==
    <<"f", "u", "n", "(", "a", ",", " ", "a", ",", " ", "a", ")", "(", "1",
      ",", " ", "2", ")">>

\*   fun(a, b, -(a, b))(5, 3)
P_params ==
    <<"f", "u", "n", "(", "a", ",", " ", "b", ",", " ", "-", "(", "a", ",",
      " ", "b", ")", ")", "(", "5", ",", " ", "3", ")">>

\* names without a binding
\*   do(define(x, 1), y)
P_unbound ==
    <<"d", "o", "(", "d", "e", "f", "i", "n", "e", "(", "x", ",", " ", "1",
      ")", ",", " ", "y", ")">>

\*   x
P_x ==
    <<"x">>

\*   print(total)
P_total ==
    <<"p", "r", "i", "n", "t", "(", "t", "o", "t", "a", "l", ")">>

\* host functions at the edge of their arguments
\*   element(array(1, 2), 5)
P_outOfRange ==
    <<"e", "l", "e", "m", "e", "n", "t", "(", "a", "r", "r", "a", "y", "(",
      "1", ",", " ", "2", ")", ",", " ", "5", ")">>

\*   do(define(u, element(array(), 0)), u)
P_defineElement ==
    <<"d", "o", "(", "d", "e", "f", "i", "n", "e", "(", "u", ",", " ", "e",
      "l", "e", "m", "e", "n", "t", "(", "a", "r", "r", "a", "y", "(", ")",
      ",", " ", "0", ")", ")", ",", " ", "u", ")">>

\*   print()
P_printNothing ==
    <<"p", "r", "i", "n", "t", "(", ")">>

\*   +(1)
P_plusOneArgument ==
    <<"+", "(", "1", ")">>

\*   length(5)
P_lengthOfNumber ==
    <<"l", "e", "n", "g", "t", "h", "(", "5", ")">>

\*   element(array(1), "a")
P_elementOfString ==
    <<"e", "l", "e", "m", "e", "n", "t", "(", "a", "r", "r", "a", "y", "(",
      "1", ")", ",", " ", "\"", "a", "\"", ")">>

\* forms without a meaningful result
\*   do()
P_emptyDo ==
    <<"d", "o", "(", ")">>

\*   while(false, print(1))
P_whileFalse ==
    <<"w", "h", "i", "l", "e", "(", "f", "a", "l", "s", "e", ",", " ", "p",
      "r", "i", "n", "t", "(", "1", ")", ")">>

\*   do(define(n, 0),
\*      while(if(<(n, 2), n, false),
\*            define(n, +(n, 1))),
\*      n)
P_whileZero ==
    <<"d", "o", "(", "d", "e", "f", "i", "n", "e", "(", "n", ",", " ", "0",
      ")", ",", "\n", " ", " ", " ", "w", "h", "i", "l", "e", "(", "i", "f",
      "(", "<", "(", "n", ",", " ", "2", ")", ",", " ", "n", ",", " ", "f",
      "a", "l", "s", "e", ")", ",", "\n", " ", " ", " ", " ", " ", " ", " ",
      " ", " ", "d", "e", "f", "i", "n", "e", "(", "n", ",", " ", "+", "(",
      "n", ",", " ", "1", ")", ")", ")", ",", "\n", " ", " ", " ", "n", ")">>

\* text parse rejects
\*   x y
P_trailing ==
    <<"x", " ", "y">>

\* applications
\*   1(print(2))
P_notCallable ==
    <<"1", "(", "p", "r", "i", "n", "t", "(", "2", ")", ")">>

\*   -(print(7), print(2))
P_order ==
    <<"-", "(", "p", "r", "i", "n", "t", "(", "7", ")", ",", " ", "p", "r",
      "i", "n", "t", "(", "2", ")", ")">>

\* special forms used with the wrong shape
\*   if(print(1), print(2))
P_ifArity ==
    <<"i", "f", "(", "p", "r", "i", "n", "t", "(", "1", ")", ",", " ", "p",
      "r", "i", "n", "t", "(", "2", ")", ")">>

\*   while(print(1))
P_whileArity ==
    <<"w", "h", "i", "l", "e", "(", "p", "r", "i", "n", "t", "(", "1", ")",
      ")">>

\*   define(1, print(2))
P_defineShape ==
    <<"d", "e", "f", "i", "n", "e", "(", "1", ",", " ", "p", "r", "i", "n",
      "t", "(", "2", ")", ")">>

\*   do(define(x, 1), define(x, print(2), 3))
P_defineArity ==
    <<"d", "o", "(", "d", "e", "f", "i", "n", "e", "(", "x", ",", " ", "1",
      ")", ",", " ", "d", "e", "f", "i", "n", "e", "(", "x", ",", " ", "p",
      "r", "i", "n", "t", "(", "2", ")", ",", " ", "3", ")", ")">>

\*   if(true, print(1), print(2), print(3))
P_ifFour ==
    <<"i", "f", "(", "t", "r", "u", "e", ",", " ", "p", "r", "i", "n", "t",
      "(", "1", ")", ",", " ", "p", "r", "i", "n", "t", "(", "2", ")", ",",
      " ", "p", "r", "i", "n", "t", "(", "3", ")", ")">>

\*   do(define(f, fun()), 1)
P_funEmpty ==
    <<"d", "o", "(", "d", "e", "f", "i", "n", "e", "(", "f", ",", " ", "f",
      "u", "n", "(", ")", ")", ",", " ", "1", ")">>

\*   do(define(f, fun(1, 2)), 1)
P_funParam ==
    <<"d", "o", "(", "d", "e", "f", "i", "n", "e", "(", "f", ",", " ", "f",
      "u", "n", "(", "1", ",", " ", "2", ")", ")", ",", " ", "1", ")">>

\* part_001 189-196, the sum of the numbers below a bound N (11 in the source):
\*   do(define(total, 0),
\*      define(count, 1),
\*      while(<(count, N),
\*            do(define(total, +(total, count)),
\*               define(count, +(count, 1)))),
\*      print(total))
SumPrefix ==
    <<"d", "o", "(", "d", "e", "f", "i", "n", "e", "(", "t", "o", "t", "a",
      "l", ",", " ", "0", ")", ",", "\n", " ", " ", " ", "d", "e", "f", "i",
      "n", "e", "(", "c", "o", "u", "n", "t", ",", " ", "1", ")", ",", "\n",
      " ", " ", " ", "w", "h", "i", "l", "e", "(", "<", "(", "c", "o", "u",
      "n", "t", ",", " ">>

SumSuffix ==
    <<")", ",", "\n", " ", " ", " ", " ", " ", " ", " ", " ", " ", "d", "o",
      "(", "d", "e", "f", "i", "n", "e", "(", "t", "o", "t", "a", "l", ",",
      " ", "+", "(", "t", "o", "t", "a", "l", ",", " ", "c", "o", "u", "n",
      "t", ")", ")", ",", "\n", " ", " ", " ", " ", " ", " ", " ", " ", " ",
      " ", " ", " ", "d", "e", "f", "i", "n", "e", "(", "c", "o", "u", "n",
      "t", ",", " ", "+", "(", "c", "o", "u", "n", "t", ",", " ", "1", ")",
      ")", ")", ")", ",", "\n", " ", " ", " ", "p", "r", "i", "n", "t", "(",
      "t", "o", "t", "a", "l", ")", ")">>

P_sum(N) == SumPrefix \o NumberToString(N) \o SumSuffix

Programs ==
    {P_large,
     P_plusOne,
     P_pow,
     P_sumArray,
     P_closure,
     P_shadow,
     P_lexical,
     P_twoCalls,
     P_byReference,
     P_ifZero,
     P_ifEmpty,
     P_ifFalse,
     P_ifCompare,
     P_tooMany,
     P_tooFew,
     P_sameParam,
     P_params,
     P_unbound,
     P_x,
     P_total,
     P_outOfRange,
     P_defineElement,
     P_printNothing,
     P_plusOneArgument,
     P_lengthOfNumber,
     P_elementOfString,
     P_emptyDo,
     P_whileFalse,
     P_whileZero,
     P_trailing,
     P_notCallable,
     P_order,
     P_ifArity,
     P_whileArity,
     P_defineShape,
     P_defineArity,
     P_ifFour,
     P_funEmpty,
     P_funParam}
    \cup {P_sum(N) : N \in 0..MaxN}

(***************************************************************************)
(* run                                                                     *)
(***************************************************************************)
\* the names bound in some scope that topScope did not have when loaded
BoundNames ==
    UNION {DOMAIN scopes[s].vars : s \in 1..Len(scopes)} \ DOMAIN topScope.vars

\* the names an expression uses
RECURSIVE WordsOf(_)
WordsOf(e) ==
    IF e.type = "word" THEN {e.name}
    ELSE IF e.type = "value" THEN {}
    ELSE WordsOf(e.operator) \cup UNION {WordsOf(e.args[i]) : i \in 1..Len(e.args)}

\* topScope refers to no function or array object made by an earlier run
NothingKept ==
    \A n \in DOMAIN scopes[1].vars : scopes[1].vars[n].t \notin {"closure", "array"}

\* run(program): evaluate(parse(program), Object.create(topScope)).  The objects
\* of the run before are garbage when nothing the new run can reach, that is
\* topScope, refers to them.
Run(p) ==
    /\ pc \in {"idle", "done", "failed"}
    /\ program' = p
    /\ out' = <<>>
    /\ LET r == parse(p)
       IN IF ~r.ok
          THEN /\ Throw("SyntaxError")
               /\ defined' = {}
               /\ UNCHANGED <<scopes, funs, arrays>>
          ELSE /\ defined' = BoundNames \cap WordsOf(r.expr)
               /\ IF NothingKept
                  THEN /\ scopes' = <<scopes[1], ObjectCreate(1)>>
                       /\ funs' = <<>>
                       /\ arrays' = <<>>
                       /\ Eval(r.expr, 2)
                  ELSE /\ scopes' = Append(scopes, ObjectCreate(1))
                       /\ UNCHANGED <<funs, arrays>>
                       /\ Eval(r.expr, Len(scopes) + 1)
               /\ stack' = <<>>
    /\ ev' = Event("Run", NoFrame, 0, <<>>, Undefined)
    /\ UNCHANGED <<text, tree, before>>

\* evaluate returns to run, run returns the value
RunReturn ==
    /\ pc = "return" /\ stack = <<>>
    /\ pc' = "done"
    /\ ev' = Event("RunReturn", NoFrame, 0, <<>>, value)
    /\ UNCHANGED <<scopes, funs, arrays, expr, scope, value, error, stack, out,
                   program, defined, text, tree, before>>

\* what parse has given for a text: nothing yet, an expression or a SyntaxError
NotParsed == [state |-> "none", expr |-> NoExpr]
ParseResult(r) ==
    [state |-> IF r.ok THEN "expr" ELSE "SyntaxError", expr |-> r.expr]

\* the interpreter once the file has been loaded
EvalInit ==
    /\ scopes = <<topScope>>
    /\ funs = <<>>
    /\ arrays = <<>>
    /\ pc = "idle"
    /\ expr = NoExpr
    /\ scope = 0
    /\ value = Undefined
    /\ error = ""
    /\ stack = <<>>
    /\ out = <<>>
    /\ program = <<>>
    /\ defined = {}
    /\ ev = Event("Init", NoFrame, 0, <<>>, Undefined)

Init ==
    /\ EvalInit
    /\ text = <<>>
    /\ tree = NotParsed
    /\ before = [text |-> <<>>, tree |-> NotParsed]

\* one step of the evaluation in progress
Step ==
    \/ EvalValue \/ EvalWord \/ EvalIf \/ IfCond \/ IfReturn
    \/ EvalWhile \/ WhileCond \/ WhileBody \/ EvalDo \/ DoNext
    \/ EvalDefine \/ DefineBind \/ EvalFun
    \/ EvalApply \/ ApplyOperator \/ ApplyArg
    \/ CallClosure \/ CallReturn \/ CallHost
    \/ RunReturn

Next ==
    \/ EvalValue
    \/ EvalWord
    \/ EvalIf
    \/ IfCond
    \/ IfReturn
    \/ EvalWhile
    \/ WhileCond
    \/ WhileBody
    \/ EvalDo
    \/ DoNext
    \/ EvalDefine
    \/ DefineBind
    \/ EvalFun
    \/ EvalApply
    \/ ApplyOperator
    \/ ApplyArg
    \/ CallClosure
    \/ CallReturn
    \/ CallHost
    \/ RunReturn
    \/ \E p \in Programs : Run(p)

Spec == Init /\ [][Next]_vars

\* run is synchronous: an evaluation that has begun goes on to its end
LiveSpec == Spec /\ WF_vars(Step)

(***************************************************************************)
(* The parser on its own: parse is called with a text                      *)
(***************************************************************************)
\* the sequences over S of length n at most
SeqsUpTo(S, n) == UNION {[1..k -> S] : k \in 0..n}

\* the longest text given to parse
MaxLen == 5

\* the characters of the texts given to parse
ParseChars == {"a", "1", "(", ")", ",", "\"", " ", "\n", "#"}

Texts == SeqsUpTo(ParseChars, MaxLen)

\* parse(text)
ParseText ==
    /\ tree.state = "none"
    /\ tree' = ParseResult(parse(text))
    /\ UNCHANGED <<text, before, evalVars>>

ParseInit ==
    /\ EvalInit
    /\ text \in Texts
    /\ tree = NotParsed
    /\ before = [text |-> <<>>, tree |-> NotParsed]

ParseNext == ParseText

ParseSpec == ParseInit /\ [][ParseNext]_vars

(***************************************************************************)
(* White space and comments put into a program                             *)
(***************************************************************************)
\* the longest program without white space, and the longest run put into one
MaxBase == 4
MaxFill == 2

BaseChars == {"a", "1", "(", ")", ",", "\""}
FillChars == {" ", "\n", "#", "x"}

\* the length of the token at the start of s, 0 when there is none
TokenLen(s) ==
    IF s = <<>> THEN 0
    ELSE IF Head(s) \in {"(", ")", ","} THEN 1
    ELSE IF StringMatchLen(s) > 0 THEN StringMatchLen(s)
    ELSE IF NumberMatchLen(s) > 0 THEN NumberMatchLen(s)
    ELSE WordMatchLen(s)

\* the places of s, counted from off, where a token starts or ends
RECURSIVE TokenBounds(_, _)
TokenBounds(s, off) ==
    LET r == skipSpace(s)
        start == off + Len(s) - Len(r)
        l == TokenLen(r)
    IN IF l = 0 THEN {}
       ELSE {start, start + l} \cup TokenBounds(Drop(r, l), start + l)

\* the places of a program where a run can be put: in front of the first token,
\* after the last, and where a token starts or ends
InsertionPoints(s) == {0, Len(s)} \cup TokenBounds(s, 0)

\* the place of the first line terminator of s, 0 when there is none
FirstLineEnd(s) ==
    IF \E i \in 1..Len(s) : IsLineTerminator(s[i])
    THEN CHOOSE i \in 1..Len(s) :
             /\ IsLineTerminator(s[i])
             /\ \A j \in 1..(i - 1) : ~IsLineTerminator(s[j])
    ELSE 0

\* a run of white space and comments, each comment running to the end of its
\* line; the last comment may end with the text when the run is put at its end
RECURSIVE IsFiller(_, _)
IsFiller(f, atEnd) ==
    IF f = <<>> THEN TRUE
    ELSE IF IsSpace(Head(f)) THEN IsFiller(Tail(f), atEnd)
    ELSE IF Head(f) = "#"
    THEN IF FirstLineEnd(f) = 0 THEN atEnd
         ELSE IsFiller(Drop(f, FirstLineEnd(f)), atEnd)
    ELSE FALSE

\* the comments of the examples of parse (lines 308 and 311)
\*   # hello
F_hello ==
    <<"#", " ", "h", "e", "l", "l", "o", "\n">>

\*    # one
\*      # two
F_oneTwo ==
    <<" ", "#", " ", "o", "n", "e", "\n", " ", " ", " ", "#", " ", "t", "w",
      "o", "\n">>

\* the runs put between two tokens or in front of the first
FillersInside ==
    {f \in SeqsUpTo(FillChars, MaxFill) : f # <<>> /\ IsFiller(f, FALSE)}
        \cup {F_hello, F_oneTwo}

\* the runs put at the end of the text
FillersAtEnd ==
    {f \in SeqsUpTo(FillChars, MaxFill) : f # <<>> /\ IsFiller(f, TRUE)}
        \cup {F_hello, F_oneTwo}

Fillers(atEnd) == IF atEnd THEN FillersAtEnd ELSE FillersInside

\* the programs the runs are put into
BaseTexts == SeqsUpTo(BaseChars, MaxBase) \cup {<<"x">>, P_plusOne}

\* a run of white space and comments is put into the program at the place k
InsertFiller(k, f) ==
    /\ tree.state = "expr"
    /\ before.tree.state = "none"
    /\ text' = SubSeq(text, 1, k) \o f \o Drop(text, k)
    /\ tree' = NotParsed
    /\ before' = [text |-> text, tree |-> tree]
    /\ UNCHANGED evalVars

FillInit ==
    /\ EvalInit
    /\ text \in BaseTexts
    /\ tree = NotParsed
    /\ before = [text |-> <<>>, tree |-> NotParsed]

FillNext ==
    \/ ParseText
    \/ \E k \in InsertionPoints(text) :
           \E f \in Fillers(k = Len(text)) : InsertFiller(k, f)

FillSpec == FillInit /\ [][FillNext]_vars

(***************************************************************************)
(* The ancestors of a scope, nearest first, and the scopes a lookup from s *)
(* visits                                                                  *)
(***************************************************************************)
RECURSIVE Chain(_, _)
Chain(sc, s) == IF s = 0 THEN <<>> ELSE <<s>> \o Chain(sc, sc[s].proto)

Ancestors(sc, s) == Tail(Chain(sc, s))

InSeq(x, seq) == \E i \in 1..Len(seq) : seq[i] = x

\* the step specialForms.define makes when the value to bind has been computed
AtDefineBind == pc = "return" /\ stack # <<>> /\ Top.k = "define"

\* C1: define(name, e) evaluated in a scope S writes the binding into the local
\* mapping of S alone: every other scope, the ancestors of S among them, is left
\* as it was, so a lookup of the name from an enclosing scope that had bound it
\* still gives the outer value, while a lookup from S gives the new value.  A
\* function that defines x again leaves the x of the scope around it: P_shadow
\* prints 2 inside the call and returns the outer 1.
C1_DefineWritesLocal ==
    [][/\ AtDefineBind =>
           LET S == Top.sc
               name == Top.name
           IN /\ Len(scopes') = Len(scopes)
              /\ \A s \in 1..Len(scopes) : s # S => scopes'[s] = scopes[s]
              /\ scopes'[S].proto = scopes[S].proto
              /\ DOMAIN scopes'[S].vars = DOMAIN scopes[S].vars \cup {name}
              /\ \A n \in DOMAIN scopes[S].vars :
                     n # name => scopes'[S].vars[n] = scopes[S].vars[n]
              /\ scopes'[S].vars[name] = value
              /\ GetBinding(scopes', S, name) = value
              /\ \A k \in 1..Len(Ancestors(scopes, S)) :
                     LET a == Ancestors(scopes, S)[k]
                     IN HasBinding(scopes, a, name) =>
                            GetBinding(scopes', a, name) = GetBinding(scopes, a, name)
       /\ (program' = P_shadow /\ pc' = "done") =>
              /\ value' = Num(1)
              /\ out' = <<Num(2)>>
      ]_vars

\* a define has bound, in the scope of a call, a name that an enclosing scope
\* binds to another value
C1_Witness ==
    /\ ev.op = "DefineBind"
    /\ scopes[ev.sc].proto > 1
    /\ HasBinding(scopes, scopes[ev.sc].proto, ev.name)
    /\ GetBinding(scopes, scopes[ev.sc].proto, ev.name) # ev.v
    /\ GetBinding(scopes, ev.sc, ev.name) = ev.v

\* the step the function made by fun makes when it is called
AtCallClosure == pc = "call" /\ stack # <<>> /\ Top.op.t = "closure"

\* the step specialForms.fun makes
AtEvalFun == pc = "eval" /\ IsSpecialForm(expr, N_fun)

\* C2: every call of a function made by fun evaluates the body in a new scope
\* whose delegate is the scope the fun expression was evaluated in, never the
\* scope of the caller: the scope a function captured is the scope of its fun
\* expression and stays it, the scope of a call is a new object that no call in
\* progress uses, and the scopes there were are left as they were.  A free name
\* of the body is the binding of the defining scope: P_closure gives 9 after the
\* defining call returned, P_lexical gives the 1 of the defining scope though
\* the caller binds a to 2, and the two calls of P_twoCalls keep their own k.
C2_CallsUseDefiningScope ==
    [][/\ (AtEvalFun /\ pc' = "return") =>
              /\ funs' = Append(funs, funs'[Len(funs')])
              /\ funs'[Len(funs')].scope = scope
              /\ value' = Closure(Len(funs'))
       /\ (~AtEvalFun) => \A i \in 1..Len(funs) :
              i <= Len(funs') => funs'[i].scope = funs[i].scope
       /\ (AtCallClosure /\ pc' = "eval") =>
              /\ Len(scopes') = Len(scopes) + 1
              /\ scope' = Len(scopes')
              /\ expr' = funs[Top.op.n].body
              /\ scopes'[scope'].proto = funs[Top.op.n].scope
              /\ \A s \in 1..Len(scopes) : scopes'[s] = scopes[s]
              /\ \A k \in 1..(Len(stack') - 1) : stack'[k].sc # scope'
       /\ (program' = P_closure /\ pc' = "done") =>
              value' = Num(9) /\ out' = <<Num(9)>>
       /\ (program' = P_lexical /\ pc' = "done") => value' = Num(1)
       /\ (program' = P_twoCalls /\ pc' = "done") => value' = Num(3)
      ]_vars

\* a function is called from a scope that is not its defining scope, after the
\* call that made its defining scope has returned
C2_Witness ==
    /\ ev.op = "CallClosure"
    /\ pc = "eval"
    /\ scopes[scope].proto > 1
    /\ scopes[scope].proto # ev.f.sc
    /\ \A k \in 1..Len(stack) : stack[k].sc # scopes[scope].proto

N_total == <<"t", "o", "t", "a", "l">>

\* C3: after any sequence of calls of run, returned or failed, the global scope
\* holds the bindings it had when loaded, with their values; each run evaluates
\* in a new empty scope whose delegate is the global scope; a name the run
\* before had bound and this run has not is not resolvable (P_x and P_total
\* never return, they fail with a ReferenceError, whatever ran before them).
C3_RunsLeaveGlobalScope ==
    /\ scopes[1] = topScope
    /\ (ev.op = "Run" /\ pc = "eval") =>
           /\ scope > 1
           /\ scopes[scope] = ObjectCreate(1)
    /\ (/\ pc = "eval" /\ expr.type = "word" /\ expr.name \in defined
        /\ \A s \in 2..Len(scopes) : expr.name \notin DOMAIN scopes[s].vars) =>
           ~HasBinding(scopes, scope, expr.name)
    /\ program \in {P_x, P_total} =>
           /\ pc # "done"
           /\ pc = "failed" => error = "ReferenceError"

\* print(total) has failed with a ReferenceError in a run that followed a run
\* which bound total
C3_Witness ==
    /\ program = P_total
    /\ pc = "failed"
    /\ error = "ReferenceError"
    /\ N_total \in defined

\* what the if in progress, or just returned, has evaluated
IfFrameOk(f) ==
    /\ f.evals \in {<<1>>, <<1, 2>>, <<1, 3>>}
    /\ Len(f.vals) = Len(f.evals) - 1
    /\ Len(f.evals) = 2 => (f.evals[2] = 2 <=> f.vals[1] # Bool(FALSE))

\* C4: an if whose condition evaluates without error evaluates the condition
\* once and then one of its two branches, once: the second argument when the
\* value of the condition is anything but Boolean false (0 and the empty string
\* included), the third when it is Boolean false; the other branch is not
\* evaluated and has no effect; the value of the if is the value of the branch.
C4_IfEvaluatesOneBranch ==
    /\ \A k \in 1..Len(stack) : stack[k].k = "if" => IfFrameOk(stack[k])
    /\ ev.op = "IfReturn" =>
           /\ IfFrameOk(ev.f)
           /\ Len(ev.f.evals) = 2
           /\ pc = "return"
           /\ value = ev.v
    /\ (pc = "done" /\ program \in {P_ifZero, P_ifEmpty}) =>
           value = Str(<<"t">>) /\ out = <<Str(<<"t">>)>>
    /\ (pc = "done" /\ program \in {P_ifFalse, P_ifCompare}) =>
           value = Str(<<"e">>) /\ out = <<Str(<<"e">>)>>

\* an if whose condition gave 0 has evaluated its second argument and returned
C4_Witness ==
    /\ ev.op = "IfReturn"
    /\ ev.f.vals = <<Num(0)>>
    /\ ev.f.evals = <<1, 2>>
    /\ out = <<Str(<<"t">>)>>

N_count == <<"c", "o", "u", "n", "t">>

\* what a while has evaluated: the condition and the body in turn, the
\* condition first, the body after each value of the condition but Boolean false
WhileFrameOk(f) ==
    /\ Len(f.evals) >= 1
    /\ \A j \in 1..Len(f.evals) : f.evals[j] = (IF j % 2 = 1 THEN 1 ELSE 2)
    /\ \A j \in 1..Len(f.vals) : j % 2 = 1 /\ j < Len(f.evals) => f.vals[j] # Bool(FALSE)

\* the sum of the numbers below n
RECURSIVE SumBelow(_)
SumBelow(n) == IF n <= 1 THEN 0 ELSE (n - 1) + SumBelow(n - 1)

\* C5: a while evaluates its condition and its body in turn, stops at the first
\* value of the condition that is Boolean false (the body is evaluated once for
\* each other value, 0 included) and returns Boolean false; the counting loop
\* of the source, begun with total = 0 and count = 1, ends for every bound N,
\* and for N = 11 with total = 55 and count = 11.
C5_WhileLoop ==
    /\ [](\A k \in 1..Len(stack) : stack[k].k = "while" =>
              /\ WhileFrameOk(stack[k])
              /\ Len(stack[k].vals) = Len(stack[k].evals) - 1)
    /\ []((ev.op = "WhileCond" /\ pc = "return") =>
              /\ value = Bool(FALSE)
              /\ WhileFrameOk(ev.f)
              /\ Len(ev.f.vals) = Len(ev.f.evals)
              /\ Len(ev.f.evals) % 2 = 1
              /\ ev.f.vals[Len(ev.f.vals)] = Bool(FALSE))
    /\ \A N \in 0..MaxN :
           (program = P_sum(N) /\ pc = "eval") ~> (program = P_sum(N) /\ pc = "done")
    /\ \A N \in 0..MaxN :
           []((program = P_sum(N) /\ pc = "done") =>
                  /\ value = Num(SumBelow(N))
                  /\ scopes[2].vars[N_total] = Num(SumBelow(N))
                  /\ scopes[2].vars[N_count] = Num(IF N > 1 THEN N ELSE 1))
    /\ []((program = P_sum(11) /\ pc = "done") =>
              /\ scopes[2].vars[N_total] = Num(55)
              /\ scopes[2].vars[N_count] = Num(11))
    /\ []((program = P_whileZero /\ pc = "done") => value = Num(2))

\* the counting loop with the bound 11 has returned after ten evaluations of
\* its body
C5_Witness ==
    /\ program = P_sum(11)
    /\ ev.op = "WhileCond"
    /\ pc = "return"
    /\ Len(ev.f.evals) = 21
    /\ scopes[2].vars[N_total] = Num(55)

\* the step evaluate makes for an Identifier
AtEvalWord == pc = "eval" /\ expr.type = "word"

\* the places on the chain of scope s whose local mapping binds the name
Binders(sc, s, name) ==
    {k \in 1..Len(Chain(sc, s)) : name \in DOMAIN sc[Chain(sc, s)[k]].vars}

Least(S) == CHOOSE k \in S : \A j \in S : k <= j

\* C6: evaluating an Identifier in a scope S returns the value the name is bound
\* to in the nearest scope of the delegate chain of S, the chain that starts at
\* S and ends at the global scope, and raises a ReferenceError if and only if no
\* scope of the chain binds the name; a lookup, failed or not, changes no scope.
C6_LookupNearestBinding ==
    [][AtEvalWord =>
           LET chain == Chain(scopes, scope)
               binders == Binders(scopes, scope, expr.name)
           IN /\ chain[Len(chain)] = 1
              /\ scopes' = scopes
              /\ IF binders = {}
                 THEN pc' = "failed" /\ error' = "ReferenceError"
                 ELSE /\ pc' = "return"
                      /\ value' = scopes[chain[Least(binders)]].vars[expr.name]
      ]_vars

\* a name bound in the scope of a call and, to another value, in an enclosing
\* scope has been looked up from the scope of the call
C6_Witness ==
    /\ ev.op = "EvalWord"
    /\ pc = "return"
    /\ ev.name \in DOMAIN scopes[ev.sc].vars
    /\ HasBinding(scopes, scopes[ev.sc].proto, ev.name)
    /\ GetBinding(scopes, scopes[ev.sc].proto, ev.name) # value
    /\ value = scopes[ev.sc].vars[ev.name]

\* the set of the parameter names of a function
ParamNames(f) == {f.params[i] : i \in 1..Len(f.params)}

\* the last place of a name in the parameter list
LastPlace(f, name) ==
    CHOOSE i \in 1..Len(f.params) :
        /\ f.params[i] = name
        /\ \A j \in 1..Len(f.params) : f.params[j] = name => j <= i

\* what a call with the wrong number of arguments does
WrongCountFails ==
    (AtCallClosure /\ Len(Top.vals) # Len(funs[Top.op.n].params)) =>
        /\ pc' = "failed"
        /\ error' = "TypeError"
        /\ scopes' = scopes
        /\ funs' = funs
        /\ arrays' = arrays
        /\ out' = out

\* what a call with the right number of arguments does, but for the bindings
RightCountCalls ==
    (AtCallClosure /\ Len(Top.vals) = Len(funs[Top.op.n].params)) =>
        /\ pc' = "eval"
        /\ expr' = funs[Top.op.n].body
        /\ scope' = Len(scopes) + 1
        /\ scopes' = Append(scopes, scopes'[scope'])
        /\ DOMAIN scopes'[scope'].vars = ParamNames(funs[Top.op.n])

\* C7 as stated: a call with a number of arguments other than the number of
\* parameters raises a TypeError, evaluates no body and changes no binding; with
\* the matching number every parameter name is bound, in the new scope of the
\* call and before the body is evaluated, to the argument at the same position.
C7_Original ==
    [][/\ WrongCountFails
       /\ RightCountCalls
       /\ (AtCallClosure /\ Len(Top.vals) = Len(funs[Top.op.n].params)) =>
              \A i \in 1..Len(Top.vals) :
                  scopes'[scope'].vars[funs[Top.op.n].params[i]] = Top.vals[i]
      ]_vars

\* C7 amended: a call with a number of arguments other than the number of
\* parameters raises a TypeError, evaluates no body and changes no binding; with
\* the matching number every parameter name is bound, in the new scope of the
\* call and before the body is evaluated, to the argument at the position where
\* the name occurs last in the parameter list (the same position when no
\* parameter name is repeated).
C7_CallBindsParameters ==
    [][/\ WrongCountFails
       /\ RightCountCalls
       /\ (AtCallClosure /\ Len(Top.vals) = Len(funs[Top.op.n].params)) =>
              \A name \in ParamNames(funs[Top.op.n]) :
                  scopes'[scope'].vars[name] = Top.vals[LastPlace(funs[Top.op.n], name)]
       /\ (program' = P_tooMany /\ pc' \in {"done", "failed"}) =>
              pc' = "failed" /\ error' = "TypeError" /\ out' = <<>>
       /\ (program' = P_params /\ pc' = "done") => value' = Num(2)
       /\ (program' = P_sameParam /\ pc' = "done") => value' = Num(2)
      ]_vars

\* a function of one parameter has been called with two arguments and the call
\* has failed; the scope of the caller still binds x to 1
C7_Witness ==
    /\ ev.op = "CallClosure"
    /\ pc = "failed"
    /\ error = "TypeError"
    /\ Len(ev.f.vals) = 2
    /\ Len(funs[ev.v.n].params) = 1
    /\ scopes[ev.f.sc].vars[<<"x">>] = Num(1)

\* a value of the language: a Number, a String, a Boolean, an Array or a function
IsWispValue(v) ==
    v.t \in {"number", "numberx", "string", "boolean", "array", "closure", "host"}

\* C8: when run has evaluated a program without an error, the value it returns
\* and every value bound in a scope are a Number, a String, a Boolean, an Array
\* or a function: the undefined of the host is never produced, not by element
\* with an index outside the array, not by a host function called with fewer
\* arguments than it uses, not by an empty do, not by a completed while.
C8_NoUndefined ==
    pc = "done" =>
        /\ IsWispValue(value)
        /\ \A s \in 1..Len(scopes) : \A n \in DOMAIN scopes[s].vars :
               IsWispValue(scopes[s].vars[n])
        /\ \A a \in 1..Len(arrays) : \A i \in 1..Len(arrays[a]) :
               IsWispValue(arrays[a][i])


(***************************************************************************)
(* C9: the texts parse accepts are the texts of the grammar                *)
(***************************************************************************)
\* the grammar's word characters
G_WordChar(c) == ~IsSpace(c) /\ c \notin {"(", ")", ",", "#", "\""}

\* the place where the line of the place i ends
RECURSIVE G_LineEnd(_, _)
G_LineEnd(s, i) ==
    IF i >= Len(s) \/ s[i + 1] = "\n" THEN i ELSE G_LineEnd(s, i + 1)

\* the place after the white space and the comments that start at i
RECURSIVE G_Skip(_, _)
G_Skip(s, i) ==
    IF i >= Len(s) THEN i
    ELSE IF IsSpace(s[i + 1]) THEN G_Skip(s, i + 1)
    ELSE IF s[i + 1] = "#" THEN G_Skip(s, G_LineEnd(s, i + 1))
    ELSE i

\* the places where a string, a number or a word that starts at i can end
G_AtomEnds(s, i) ==
    {j \in (i + 2)..Len(s) :
        /\ s[i + 1] = "\""
        /\ s[j] = "\""
        /\ \A k \in (i + 2)..(j - 1) : s[k] # "\""}
    \cup {j \in (i + 1)..Len(s) : \A k \in (i + 1)..j : IsDigit(s[k])}
    \cup {j \in (i + 1)..Len(s) : \A k \in (i + 1)..j : G_WordChar(s[k])}

RECURSIVE G_Expr(_, _), G_Suffix(_, _), G_List(_, _), G_ListRest(_, _)
\* expr := (string | number | word) applysuffix
G_Expr(s, i) == UNION {G_Suffix(s, j) : j \in G_AtomEnds(s, G_Skip(s, i))}

\* applysuffix := "(" [ expr { "," expr } ] ")" applysuffix | nothing
G_Suffix(s, i) ==
    LET k == G_Skip(s, i)
    IN {i} \cup IF k < Len(s) /\ s[k + 1] = "("
                THEN UNION {G_Suffix(s, j) : j \in G_List(s, k + 1)}
                ELSE {}

\* [ expr { "," expr } ] ")"
G_List(s, i) ==
    LET k == G_Skip(s, i)
    IN (IF k < Len(s) /\ s[k + 1] = ")" THEN {k + 1} ELSE {})
           \cup UNION {G_ListRest(s, j) : j \in G_Expr(s, i)}

\* { "," expr } ")"
G_ListRest(s, i) ==
    LET k == G_Skip(s, i)
    IN IF k >= Len(s) THEN {}
       ELSE IF s[k + 1] = ")" THEN {k + 1}
       ELSE IF s[k + 1] = "," THEN UNION {G_ListRest(s, j) : j \in G_Expr(s, k + 1)}
       ELSE {}

\* the whole text is an expr, white space and comments apart
Derivable(s) == \E j \in G_Expr(s, 0) : G_Skip(s, j) = Len(s)

\* C9: parse returns an expression if and only if the whole text, white space
\* and comments between the tokens apart, is derivable from the grammar
\* expr := (string | number | word) applysuffix, and raises a SyntaxError
\* otherwise; a "," that no argument follows is rejected.
C9_ParseIffGrammar ==
    tree.state # "none" =>
        /\ tree.state \in {"expr", "SyntaxError"}
        /\ tree.state = "expr" <=> Derivable(text)


(***************************************************************************)
(* C10: white space and comments do not change the tree                    *)
(***************************************************************************)
\* parse("# hello\nx") and parse("a # one\n   # two\n()")
T_helloX == F_hello \o <<"x">>
T_aOneTwo == <<"a">> \o F_oneTwo \o <<"(", ")">>

\* C10: a run of white space and comments, each comment running to the end of
\* its line, put before the first token, between two tokens or after the last
\* token of a program does not change the tree parse returns; "# hello\nx"
\* is the word x and "a # one\n   # two\n()" the application of a to no
\* arguments.
C10_FillersKeepTree ==
    /\ (before.tree.state = "expr" /\ tree.state # "none") => tree = before.tree
    /\ (text = T_helloX /\ tree.state # "none") =>
           tree = [state |-> "expr", expr |-> WordExpr(<<"x">>)]
    /\ (text = T_aOneTwo /\ tree.state # "none") =>
           tree = [state |-> "expr", expr |-> ApplyExpr(WordExpr(<<"a">>), <<>>)]

\* a comment and its line end were put between the two tokens of a(1), and
\* the text was parsed again
C10_Witness ==
    /\ before.text = <<"a", "(", "1", ")">>
    /\ text = <<"a", "(", "#", "\n", "1", ")">>
    /\ tree.state = "expr"
    /\ tree.expr = ApplyExpr(WordExpr(<<"a">>), <<ValueExpr(Num(1))>>)


(***************************************************************************)
(* C11: special forms used with the wrong shape                            *)
(***************************************************************************)
\* a special form with the wrong number or kind of arguments
WrongShape(e) ==
    /\ e.type = "apply"
    /\ e.operator.type = "word"
    /\ LET name == e.operator.name
           n == Len(e.args)
       IN \/ name = N_if /\ n # 3
          \/ name = N_while /\ n # 2
          \/ name = N_define /\ (n # 2 \/ e.args[1].type # "word")
          \/ name = N_fun /\ (n = 0 \/ \E i \in 1..(n - 1) : e.args[i].type # "word")

\* C11: the evaluation of a special form used with the wrong shape (if with
\* other than 3 arguments, while with other than 2, define with other than 2
\* or a first argument that is no word, fun with no argument or with a
\* parameter that is no word) raises a SyntaxError as its one step: no
\* argument is evaluated, nothing is printed, no scope changes and no function
\* is made, so that fun fails when it is evaluated, not when it is called.
C11_WrongShapeFails ==
    [][(pc = "eval" /\ WrongShape(expr)) =>
           /\ pc' = "failed"
           /\ error' = "SyntaxError"
           /\ scopes' = scopes
           /\ funs' = funs
           /\ out' = out]_vars

\* fun(1, 2) has failed where it was evaluated, inside define(f, ...): f is not
\* bound and was never called
C11_Witness ==
    /\ program = P_funParam
    /\ pc = "failed"
    /\ error = "SyntaxError"
    /\ ev.op = "EvalFun"
    /\ \A s \in 1..Len(scopes) : <<"f">> \notin DOMAIN scopes[s].vars
    /\ funs = <<>>


(***************************************************************************)
(* C12: a function holds its defining scope, not a copy of it              *)
(***************************************************************************)
N_pow == <<"p", "o", "w">>
N_base == <<"b", "a", "s", "e">>
N_exp == <<"e", "x", "p">>

IsCallFrame(f) == f.k = "call"

\* the calls of functions made by fun that are in progress, the outermost first
Calls(st) == SelectSeq(st, IsCallFrame)

\* evaluate is entered for a word in the scope of the innermost call, the word
\* is no binding of that scope and the defining scope of the function called
\* has a binding for it now
AtFreeName ==
    /\ pc = "eval" /\ expr.type = "word"
    /\ Calls(stack) # <<>>
    /\ LET c == Calls(stack)[Len(Calls(stack))]
       IN /\ scope = c.sc
          /\ expr.name \notin DOMAIN scopes[scope].vars
          /\ expr.name \in DOMAIN scopes[funs[c.op.n].scope].vars

\* the defining scope of the function of the innermost call
DefiningScope == funs[Calls(stack)[Len(Calls(stack))].op.n].scope

\* C12: a function made by fun holds its defining scope by reference: a free
\* name of the body gives, at every call, the binding the defining scope has at
\* the time of the lookup, also when define added it after fun was evaluated,
\* as it does for the name the function itself is bound to.  So a function
\* calls itself through its own name: pow(2, 10) is 1024, and every call of pow
\* in progress has its own base and exp.
C12_ClosureHoldsScopeByReference ==
    [][/\ AtFreeName =>
              /\ pc' = "return"
              /\ value' = scopes[DefiningScope].vars[expr.name]
       /\ program' \in {P_pow, P_byReference} => pc' # "failed"
       /\ (program' = P_byReference /\ pc' = "done") => value' = Num(5)
       /\ (program' = P_pow /\ pc' = "done") =>
              value' = Num(1024) /\ out' = <<Num(1024)>>
       /\ program' = P_pow =>
              \A j \in 1..Len(Calls(stack')) :
                  LET c == Calls(stack')[j]
                  IN /\ c.op = scopes'[funs'[c.op.n].scope].vars[N_pow]
                     /\ scopes'[c.sc].proto = funs'[c.op.n].scope
                     /\ scopes'[c.sc].vars =
                            (N_base :> Num(2) @@ N_exp :> Num(10 - (j - 1)))
      ]_vars

\* pow has looked itself up by its name in its tenth call, the one with
\* exp = 1: the name was bound in the defining scope after the function was made
C12_Witness ==
    /\ program = P_pow
    /\ ev.op = "EvalWord" /\ ev.name = N_pow
    /\ pc = "return"
    /\ Len(Calls(stack)) = 10
    /\ value.t = "closure"
    /\ funs[value.n].params = <<N_base, N_exp>>
    /\ scopes[funs[value.n].scope].vars[N_pow] = value
    /\ scopes[ev.sc].vars[N_exp] = Num(1)


(***************************************************************************)
(* C13: the order of the evaluations of an application                     *)
(***************************************************************************)
\* evaluate is entered for an application whose operator names no special form
AtApplication ==
    /\ pc = "eval" /\ expr.type = "apply"
    /\ ~(expr.operator.type = "word" /\ expr.operator.name \in specialForms)

\* the operator of the application in progress has its value
AtOperatorValue == pc = "return" /\ stack # <<>> /\ Top.k = "apply" /\ Top.i = 0

\* an argument of the application in progress has its value
AtArgumentValue == pc = "return" /\ stack # <<>> /\ Top.k = "apply" /\ Top.i >= 1

\* 0, 1, ..., n: the operator, then the arguments from the left
InOrder(n) == [i \in 1..(n + 1) |-> i - 1]

\* C13: for an application whose operator names no special form, evaluate first
\* evaluates the operator, then every argument once and from left to right,
\* and only then calls the function with the values of the arguments in that
\* order; when the value of the operator is no function a TypeError is raised
\* and nothing is called.
C13_ApplicationOrder ==
    [][/\ AtApplication =>
              /\ pc' = "eval" /\ expr' = expr.operator /\ scope' = scope
              /\ stack' = Append(stack, stack'[Len(stack')])
              /\ stack'[Len(stack')].args = expr.args
              /\ stack'[Len(stack')].evals = <<0>>
              /\ stack'[Len(stack')].vals = <<>>
       /\ (AtOperatorValue /\ ~IsFunction(value)) =>
              /\ pc' = "failed" /\ error' = "TypeError"
              /\ out' = out /\ scopes' = scopes
       /\ (AtOperatorValue /\ IsFunction(value)) =>
              /\ stack'[Len(stack')].op = value
              /\ IF Top.args = <<>>
                 THEN pc' = "call" /\ stack'[Len(stack')].evals = <<0>>
                 ELSE /\ pc' = "eval" /\ expr' = Top.args[1] /\ scope' = Top.sc
                      /\ stack'[Len(stack')].evals = <<0, 1>>
       /\ AtArgumentValue =>
              /\ stack'[Len(stack')].vals = Append(Top.vals, value)
              /\ stack'[Len(stack')].op = Top.op
              /\ IF Top.i = Len(Top.args)
                 THEN pc' = "call" /\ stack'[Len(stack')].evals = Top.evals
                 ELSE /\ pc' = "eval" /\ expr' = Top.args[Top.i + 1]
                      /\ scope' = Top.sc
                      /\ stack'[Len(stack')].evals = Append(Top.evals, Top.i + 1)
       /\ pc' = "call" =>
              /\ IsFunction(stack'[Len(stack')].op)
              /\ stack'[Len(stack')].evals = InOrder(Len(stack'[Len(stack')].args))
              /\ Len(stack'[Len(stack')].vals) = Len(stack'[Len(stack')].args)
       /\ ev'.op \in {"CallHost", "CallClosure"} =>
              /\ pc = "call"
              /\ ev'.f = Top
       /\ (program' = P_order /\ pc' = "done") =>
              value' = Num(5) /\ out' = <<Num(7), Num(2)>>
       /\ program' = P_notCallable =>
              /\ pc' # "done" /\ out' = <<>>
              /\ pc' = "failed" => error' = "TypeError"
      ]_vars

\* -(print(7), print(2)): the operator, then print(7), then print(2) were
\* evaluated, and - is about to be called with 7 and 2
C13_Witness ==
    /\ program = P_order
    /\ pc = "call"
    /\ Top.op = Host(<<"-">>)
    /\ Top.evals = <<0, 1, 2>>
    /\ Top.vals = <<Num(7), Num(2)>>
    /\ out = <<Num(7), Num(2)>>
====
